---------------------------- MODULE Spec2Model ----------------------------
(***************************************************************************)
(* A model of the AS3910 driver (src/src/lib.rs): the FIFO bit-packer      *)
(* FifoData::copy_bits_to, the PICC communicator communicate_to_picc with  *)
(* its interrupt wait and FIFO harvest, and the operations hlta and select *)
(* (anti-collision loop and cascade levels).                               *)
(*                                                                         *)
(* Arrays are functions over 0..n-1, so that indexes are the code's.       *)
(* Bytes are naturals in 0..255; u8 arithmetic is taken modulo 256 and an  *)
(* overflow is reported beside the wrapped value: a build with overflow    *)
(* checks (debug) panics on it and a build without (release) wraps, so a   *)
(* step that overflows has both outcomes.                                  *)
(***************************************************************************)
EXTENDS Integers, Sequences, FiniteSets, TLC

VARIABLES
    collLevel,  \* the cascade level whose anti-collision frames this chip
                \* may answer with a bit collision
    cb,         \* the copy_bits_to harness: one call, its inputs and result
    bus,        \* the transport harness: one logical bus call, step by step
    op,         \* the driver operation in progress: "none" | "select" | "hlta"
                \*   | "reqa" | "wupa" | "communicate"
    pc,         \* where the operation stands: "idle", a bus step, "done"
    ctx,        \* who awaits the communicator or the harvest:
                \*   "ac" (line 263), "sel" (line 309), "hlta" (line 221),
                \*   "coll" (fifo_data of line 285), "reqa", "wupa" (the
                \*   operation's own steps), "comm" (a call by the user)
    call,       \* the arguments of the communicate_to_picc / fifo_data call
    cascade_level, uid_bytes, uid_idx,              \* select, lines 229-231
    known_bits, tx, anticollision_cycle_counter,    \* select, lines 239-242
    coll_pos,   \* select, line 275
    poll_i,     \* wait_for_interrupt's i
    intr,       \* the interrupt flags wait_for_interrupt returned (-1: none)
    valid_bytes,\* fifo_data's valid_bytes
    result,     \* what the operation returned
    lastOp,     \* history: the last bus operation issued
    acTx,       \* history: transmit commands of anti-collision frames, this level
    acColl,     \* history: collisions accepted by the range check, this level
    levelUid,   \* history: tx[2..=5] of each Select frame pushed, by level
    commOut,    \* history: what the last communicate_to_picc call returned
    raised,     \* history: the error that the last step's primitive or the
                \*   communicator raised ("" when none)
    waited      \* history of the current wait_for_interrupt call: readings of
                \*   the line, delays, the last reading, reads of the register

---------------------------------------------------------------------------
(* u8 arithmetic *)

RECURSIVE BitAndN(_, _, _)
BitAndN(x, y, n) ==
    IF n = 0 THEN 0
    ELSE ((x % 2) * (y % 2)) + 2 * BitAndN(x \div 2, y \div 2, n - 1)

BitAnd(x, y) == BitAndN(x, y, 8)

RECURSIVE BitOrN(_, _, _)
BitOrN(x, y, n) ==
    IF n = 0 THEN 0
    ELSE (IF (x % 2) + (y % 2) > 0 THEN 1 ELSE 0)
         + 2 * BitOrN(x \div 2, y \div 2, n - 1)

BitOr(x, y) == BitOrN(x, y, 8)

RECURSIVE BitXorN(_, _, _)
BitXorN(x, y, n) ==
    IF n = 0 THEN 0
    ELSE (((x % 2) + (y % 2)) % 2) + 2 * BitXorN(x \div 2, y \div 2, n - 1)

BitXor(x, y) == BitXorN(x, y, 8)

BitNot(x) == 255 - x

Shl8(x, s) == (x * (2 ^ s)) % 256

Shr8(x, s) == x \div (2 ^ s)

Bit(x, k) == (x \div (2 ^ k)) % 2

ArrLen(a) == Cardinality(DOMAIN a)

Zeros(n) == [k \in 0 .. n - 1 |-> 0]

---------------------------------------------------------------------------
(* FifoData::copy_bits_to *)

\* Line 109: the boundary byte takes the source's bits where mask is set and
\* keeps the destination's bits where it is clear.
\* The merge with the two sides of the mask exchanged.
MergeByte_swapped(src, old, mask) ==
    BitOr(BitAnd(src, BitNot(mask)), BitAnd(old, mask))

MergeByte(src, old, mask) ==
    BitOr(BitAnd(src, mask), BitAnd(old, BitNot(mask)))

\* Line 113: dst[idx + 1 .. idx + len] takes buffer[1 ..= len].
\* The tail copy running one destination byte too far.
CopyTail_wide(d, buffer, idx, len) ==
    [k \in DOMAIN d |->
        IF k > idx /\ k <= idx + len THEN buffer[k - idx]
        ELSE IF k = idx + len + 1 THEN buffer[len]
        ELSE d[k]]

CopyTail(d, buffer, idx, len) ==
    [k \in DOMAIN d |->
        IF k > idx /\ k <= idx + len THEN buffer[k - idx] ELSE d[k]]

\* The result of a call: whether it panicked (an index out of range), whether
\* the u8 sum of the return value overflowed, the destination as the call
\* left it, and the returned value.
CopyBitsTo(self, dst, dst_valid_bits) ==
    IF self.valid_bytes = 0
    THEN [panic |-> FALSE, ovf |-> FALSE, dst |-> dst, ret |-> dst_valid_bits]
    ELSE
      LET dst_valid_bytes == dst_valid_bits \div 8
          dst_valid_last_bits == dst_valid_bits % 8
          mask == Shl8(255, dst_valid_last_bits)
          idx == dst_valid_bytes
          len == self.valid_bytes - 1
          n == ArrLen(dst)
      IN
      IF idx >= n
      THEN [panic |-> TRUE, ovf |-> FALSE, dst |-> dst, ret |-> 0]
      ELSE
        LET d1 == [dst EXCEPT ![idx] = MergeByte(self.buffer[0], dst[idx], mask)]
        IN
        IF len > 0 /\ (idx + 1 + len > n \/ len + 1 > ArrLen(self.buffer))
        THEN [panic |-> TRUE, ovf |-> FALSE, dst |-> d1, ret |-> 0]
        ELSE
          LET d2 == IF len > 0 THEN CopyTail(d1, self.buffer, idx, len) ELSE d1
              s1 == dst_valid_bits + ((len * 8) % 256)
              s2 == (s1 % 256) + (self.valid_bits % 256)
          IN [panic |-> FALSE,
              ovf |-> (s1 > 255 \/ s2 > 255),
              dst |-> d2,
              ret |-> s2 % 256]

---------------------------------------------------------------------------
(* Values of the driver *)

MaxLoops == 32

TxLen == 9

UidLen == 10

WaitTimeout == 5

BIT_COLLISION == 1

END_OF_RECEIVE == 16

\* picc::Command (SEL_CL1, SEL_CL2, SEL_CL3), from ISO 14443-3.
SelCl(level) == CASE level = 0 -> 147 [] level = 1 -> 149 [] level = 2 -> 151

\* picc::Sak: the byte, whose bit 2 says that the UID is not complete.
SakFrom(b) == b

SakIsComplete(sak) == Bit(sak, 2) = 0

\* FifoData
EmptyFifo(n) == [buffer |-> Zeros(n), valid_bytes |-> 0, valid_bits |-> 0]

NoResult ==
    [kind |-> "none", err |-> "", variant |-> "", bytes |-> Zeros(0), sak |-> 0,
     fifo |-> EmptyFifo(0)]

Err(e) == [NoResult EXCEPT !.kind = "err", !.err = e]

Panic(why) == [NoResult EXCEPT !.kind = "panic", !.err = why]

OkUnit == [NoResult EXCEPT !.kind = "ok"]

\* Ok(None) of reqa and wupa
OkNone == [NoResult EXCEPT !.kind = "empty"]

\* Ok(Some(AtqA { bytes }))
OkAtqA(buffer) == [NoResult EXCEPT !.kind = "atqa", !.bytes = buffer]

\* Ok(FifoData) of communicate_to_picc
OkFifo(fifo_data) == [NoResult EXCEPT !.kind = "fifo", !.fifo = fifo_data]

\* No reading of the interrupt line yet.
NoWait == [polls |-> 0, delays |-> 0, line |-> "none", irq_reads |-> 0]

\* wait_for_interrupt has returned the flags it read after the line was high.
WaitReturned == [NoWait EXCEPT !.line = "high", !.irq_reads = 1]

NoCall == [tx_buffer |-> Zeros(0), tx_last_bits |-> 0,
           with_anti_collision |-> FALSE, with_crc |-> FALSE, RX |-> 0]

NoLevelUid == [l \in 0 .. 2 |-> Zeros(0)]

\* A bus operation: what was called, on which register or with which command,
\* and the bytes written or read after the address byte.
BusOp(o, t, d) == [op |-> o, target |-> t, data |-> d]

NoOp == BusOp("none", "", <<>>)

ArrSeq(a) == [k \in 1 .. ArrLen(a) |-> a[k - 1]]

\* The part of the state an operation's own code reads and writes.
Cur ==
    [pc |-> pc, ctx |-> ctx, call |-> call,
     cascade_level |-> cascade_level, uid_bytes |-> uid_bytes, uid_idx |-> uid_idx,
     known_bits |-> known_bits, tx |-> tx,
     anticollision_cycle_counter |-> anticollision_cycle_counter,
     coll_pos |-> coll_pos, poll_i |-> poll_i, intr |-> intr,
     valid_bytes |-> valid_bytes, result |-> result,
     acTx |-> acTx, acColl |-> acColl, levelUid |-> levelUid, commOut |-> commOut]

\* The locals of an operation that is not running.
Fresh ==
    [pc |-> "idle", ctx |-> "none", call |-> NoCall,
     cascade_level |-> 0, uid_bytes |-> Zeros(UidLen), uid_idx |-> 0,
     known_bits |-> 0, tx |-> Zeros(TxLen),
     anticollision_cycle_counter |-> 0,
     coll_pos |-> 0, poll_i |-> 0, intr |-> -1,
     valid_bytes |-> 0, result |-> NoResult,
     acTx |-> 0, acColl |-> 0, levelUid |-> NoLevelUid, commOut |-> "none"]

\* The operation returns r: its locals are gone; the last interrupt flags read
\* and the history are kept (of the Select frames, with a Uid only).
Return(m, r) ==
    [Fresh EXCEPT !.pc = "done", !.result = r, !.intr = m.intr,
                  !.acTx = m.acTx, !.acColl = m.acColl,
                  !.levelUid = IF r.kind = "uid" THEN m.levelUid ELSE NoLevelUid,
                  !.commOut = m.commOut]

Slice(a, from, to) == [k \in 0 .. (to - from - 1) |-> a[from + k]]

\* dst[at .. at + n] . copy_from_slice(src[from .. from + n])
CopyFromSlice(dst, at, src, from, n) ==
    [k \in DOMAIN dst |->
        IF k >= at /\ k < at + n THEN src[from + (k - at)] ELSE dst[k]]

---------------------------------------------------------------------------
(* select: the code between two bus steps, as functions of the locals *)

\* The loop bound taken one round late.
LoopsExhausted_late(c) == c > MaxLoops + 1

\* Line 247
LoopsExhausted(c) == c > MaxLoops

\* Lines 245-263: the head of one anti-collision round, up to the call of
\* communicate_to_picc::<5>.
AntiCollisionRound(m) ==
    LET c == m.anticollision_cycle_counter + 1 IN
    IF LoopsExhausted(c)
    THEN Return(m, Err("AntiCollisionMaxLoopsReached"))
    ELSE
      LET tx_last_bits == m.known_bits % 8
          tx_bytes == 2 + (m.known_bits \div 8)
          end == tx_bytes + (IF tx_last_bits > 0 THEN 1 ELSE 0)
          tx1 == [m.tx EXCEPT ![1] = (Shl8(tx_bytes, 4) + tx_last_bits) % 256]
      IN
      IF end > TxLen
      THEN Return(m, Panic("slice index out of range"))
      ELSE [m EXCEPT !.anticollision_cycle_counter = c,
                     !.tx = tx1,
                     !.pc = "c_mask", !.ctx = "ac",
                     !.call = [tx_buffer |-> Slice(tx1, 0, end),
                               tx_last_bits |-> tx_last_bits,
                               with_anti_collision |-> TRUE,
                               with_crc |-> FALSE, RX |-> 5]]

\* Lines 233-243: the head of one cascade level.
CascadeRound(m) ==
    IF m.cascade_level \notin {0, 1, 2}
    THEN Return(m, Panic("unreachable"))
    ELSE [m EXCEPT !.known_bits = 0,
                   !.tx = [Zeros(TxLen) EXCEPT ![0] = SelCl(m.cascade_level)],
                   !.anticollision_cycle_counter = 0,
                   !.acTx = 0, !.acColl = 0,
                   !.pc = "anticollision"]

\* The Select frame with the NVB of the last anti-collision frame left in it.
SendSelect_stale(m) ==
    LET t1 == m.tx
        t2 == [t1 EXCEPT ![6] = BitXor(BitXor(BitXor(t1[2], t1[3]), t1[4]), t1[5])]
    IN [m EXCEPT !.tx = t2,
                 !.pc = "c_mask", !.ctx = "sel",
                 !.call = [tx_buffer |-> Slice(t2, 0, 7), tx_last_bits |-> 0,
                           with_anti_collision |-> FALSE,
                           with_crc |-> TRUE, RX |-> 1]]

\* Lines 304-309: the Select frame, up to the call of communicate_to_picc::<1>.
SendSelect(m) ==
    LET t1 == [m.tx EXCEPT ![1] = 112]
        t2 == [t1 EXCEPT ![6] = BitXor(BitXor(BitXor(t1[2], t1[3]), t1[4]), t1[5])]
    IN [m EXCEPT !.tx = t2,
                 !.pc = "c_mask", !.ctx = "sel",
                 !.call = [tx_buffer |-> Slice(t2, 0, 7), tx_last_bits |-> 0,
                           with_anti_collision |-> FALSE,
                           with_crc |-> TRUE, RX |-> 1]]

\* fifo_data.copy_bits_to(&mut tx[2..=6], known_bits) of lines 265 and 288:
\* the call's result with dst put back into tx.
SpliceIntoTx(m, fifo_data, checks) ==
    LET r == CopyBitsTo(fifo_data, Slice(m.tx, 2, 7), m.known_bits)
    IN [panic |-> r.panic \/ (r.ovf /\ checks),
        tx |-> [k \in DOMAIN m.tx |->
                   IF k >= 2 /\ k <= 6 THEN r.dst[k - 2] ELSE m.tx[k]]]

\* Lines 264-268 and 304-309: the anti-collision frame was answered.
OnAntiCollisionOk(m, fifo_data, checks) ==
    LET s == SpliceIntoTx(m, fifo_data, checks) IN
    IF s.panic
    THEN Return(m, Panic("copy_bits_to"))
    ELSE SendSelect([m EXCEPT !.tx = s.tx])

\* Lines 272-275: the collision position; ovf says that a u8 operation
\* overflowed on the way, pos is the wrapped value.
CollPos(coll_reg) ==
    LET nib == BitAnd(Shr8(coll_reg, 4), 15)
        bytes_before_coll == (nib - 2) % 256
        bits_before_coll == BitAnd(Shr8(coll_reg, 1), 7)
        p1 == bytes_before_coll * 8
        p2 == (p1 % 256) + bits_before_coll
        p3 == (p2 % 256) + 1
    IN [ovf |-> (nib < 2 \/ p1 > 255 \/ p2 > 255 \/ p3 > 255),
        pos |-> p3 % 256]

\* Line 280: the collision is rejected.
NoProgress(pos, known) == pos < known \/ pos > 8 * 9

\* Lines 270-285: the collision register was read.
OnCollisionRegister(m, coll_reg, checks) ==
    LET d == CollPos(coll_reg) IN
    IF d.ovf /\ checks
    THEN Return(m, Panic("arithmetic overflow"))
    ELSE IF NoProgress(d.pos, m.known_bits)
    THEN Return(m, Err("Collision"))
    ELSE [m EXCEPT !.coll_pos = d.pos,
                   !.pc = "f_status", !.ctx = "coll",
                   !.call = [NoCall EXCEPT !.RX = 5]]

\* Lines 292-297: the bit at the collision position is set.
ForceBit(t, known) ==
    LET count == known % 8
        check_bit == ((known - 1) % 256) % 8
        index == 1 + (known \div 8) + (IF count # 0 THEN 1 ELSE 0)
    IN [ovf |-> known = 0,
        panic |-> index >= ArrLen(t),
        tx |-> IF index >= ArrLen(t) THEN t
               ELSE [t EXCEPT ![index] = BitOr(t[index], Shl8(1, check_bit))]]

\* Lines 285-298: the FIFO was harvested after an accepted collision.
OnCollisionFifo(m, fifo_data, checks) ==
    LET s == SpliceIntoTx(m, fifo_data, checks)
        f == ForceBit(s.tx, m.coll_pos)
    IN
    IF s.panic
    THEN Return(m, Panic("copy_bits_to"))
    ELSE IF (f.ovf /\ checks) \/ f.panic
    THEN Return(m, Panic("forced bit"))
    ELSE [m EXCEPT !.known_bits = m.coll_pos,
                   !.tx = f.tx,
                   !.acColl = m.acColl + 1,
                   !.pc = "anticollision", !.ctx = "none", !.call = NoCall]

\* The Uid with the variants of levels 0 and 1 exchanged.
UidOf_exchanged(level, bytes, sak) ==
    CASE level = 0 ->
           [NoResult EXCEPT !.kind = "uid", !.variant = "Double",
                            !.bytes = Slice(bytes, 0, 7), !.sak = sak]
      [] level = 1 ->
           [NoResult EXCEPT !.kind = "uid", !.variant = "Single",
                            !.bytes = Slice(bytes, 0, 4), !.sak = sak]
      [] level = 2 ->
           [NoResult EXCEPT !.kind = "uid", !.variant = "Triple",
                            !.bytes = bytes, !.sak = sak]
      [] OTHER -> Panic("unreachable")

\* Lines 324-338: the Uid by the cascade level.
UidOf(level, bytes, sak) ==
    CASE level = 0 ->
           [NoResult EXCEPT !.kind = "uid", !.variant = "Single",
                            !.bytes = Slice(bytes, 0, 4), !.sak = sak]
      [] level = 1 ->
           [NoResult EXCEPT !.kind = "uid", !.variant = "Double",
                            !.bytes = Slice(bytes, 0, 7), !.sak = sak]
      [] level = 2 ->
           [NoResult EXCEPT !.kind = "uid", !.variant = "Triple",
                            !.bytes = bytes, !.sak = sak]
      [] OTHER -> Panic("unreachable")

\* The level's first three UID bytes, the cascade tag among them.
KeepCascadePart_tagged(bytes, idx, t) == CopyFromSlice(bytes, idx, t, 2, 3)

\* Line 315: the level's UID bytes without the cascade tag.
KeepCascadePart(bytes, idx, t) == CopyFromSlice(bytes, idx, t, 3, 3)

\* Line 319: the last level's UID bytes.
KeepLastPart(bytes, idx, t) == CopyFromSlice(bytes, idx, t, 2, 4)

\* Lines 312-322: the Select frame was answered.
OnSelectOk(m, rx) ==
    LET sak == SakFrom(rx.buffer[0]) IN
    IF ~SakIsComplete(sak)
    THEN [m EXCEPT !.uid_bytes = KeepCascadePart(m.uid_bytes, m.uid_idx, m.tx),
                   !.uid_idx = m.uid_idx + 3,
                   !.cascade_level = m.cascade_level + 1,
                   !.pc = "cascade", !.ctx = "none", !.call = NoCall]
    ELSE Return(m, UidOf(m.cascade_level,
                         KeepLastPart(m.uid_bytes, m.uid_idx, m.tx),
                         sak))

\* hlta taking an answered frame for the acknowledgement.
HltaResult_answered(res) ==
    IF res.ok THEN OkUnit
    ELSE IF res.err = "InterruptTimeout" THEN Err("NotAcknowledged")
    ELSE Err(res.err)

\* Lines 221-225: hlta's result from the communicator's.
HltaResult(res) ==
    IF ~res.ok /\ res.err = "InterruptTimeout" THEN OkUnit
    ELSE IF res.ok THEN Err("NotAcknowledged")
    ELSE Err(res.err)

---------------------------------------------------------------------------
(* What the chip and the lines may answer *)

BusFaults == {"SpiManager(SPI)", "SpiManager(CS)"}

\* Values of the interrupt register: end of receive, without and with a
\* bit collision.
IntrVals == {16, 17}

\* The levels at which the chip may answer an anti-collision frame with a bit
\* collision: one of 0 .. MaxCollLevel in a run.
MaxCollLevel == 1

\* An anti-collision frame is answered with a bit collision only at the
\* level collLevel; any other frame may be.
IntrValsNow ==
    IF ctx = "ac" /\ cascade_level # collLevel
    THEN {v \in IntrVals : BitAnd(v, BIT_COLLISION) = 0}
    ELSE IntrVals

\* Values of the FIFO status register: 0, 1 (with the two low bits set), 5,
\* 6 and 63 (with the two low bits clear and set) bytes in its upper six bits.
FifoStatusVals == {0, 7, 20, 24, 252, 255}

\* Frames the FIFO may hold; a read of n bytes takes the first n of one.
FifoFrames ==
    { [k \in 0 .. 5 |-> <<136, 4, 1, 2, 143, 0>>[k + 1]],
      [k \in 0 .. 5 |-> <<4, 1, 2, 3, 4, 0>>[k + 1]] }

\* Values of the collision register: positions 1, 41, 72 and 73, and an
\* upper nibble below 2.
CollRegs == {32, 112, 174, 176, 16}

---------------------------------------------------------------------------
(* communicate_to_picc, wait_for_interrupt, fifo_data: results and steps *)

CommOk(fifo_data) == [ok |-> TRUE, err |-> "", fifo |-> fifo_data]

CommErr(e) == [ok |-> FALSE, err |-> e, fifo |-> EmptyFifo(0)]

\* The caller takes the result of communicate_to_picc (lines 221-225, 263-300,
\* 309) or of fifo_data (line 285).
Dispatch(m, res, checks) ==
    CASE m.ctx = "ac" ->
           IF res.ok THEN OnAntiCollisionOk(m, res.fifo, checks)
           ELSE IF res.err = "Collision"
           THEN [m EXCEPT !.pc = "s_collreg", !.ctx = "none", !.call = NoCall]
           ELSE Return(m, Err(res.err))
      [] m.ctx = "sel" ->
           IF res.ok THEN OnSelectOk(m, res.fifo) ELSE Return(m, Err(res.err))
      [] m.ctx = "hlta" -> Return(m, HltaResult(res))
      [] m.ctx = "coll" ->
           IF res.ok THEN OnCollisionFifo(m, res.fifo, checks)
           ELSE Return(m, Err(res.err))
      [] m.ctx = "comm" ->
           IF res.ok THEN Return(m, OkFifo(res.fifo)) ELSE Return(m, Err(res.err))
      [] m.ctx \in {"reqa", "wupa"} -> Return(m, Err(res.err))

\* Whether the build checks u8 overflow.
OverflowChecks == BOOLEAN

\* The callee returns res: the history takes the communicator's result, and
\* the callee's locals are gone where the operation goes on.
DeliverIn(m, res, checks) ==
    LET h == [m EXCEPT !.commOut = IF m.ctx \in {"coll", "reqa", "wupa"}
                                   THEN m.commOut
                                   ELSE IF res.ok THEN "Ok" ELSE res.err]
        d == Dispatch(h, res, checks)
    IN IF d.pc = "done" THEN d
       ELSE [d EXCEPT !.poll_i = 0, !.valid_bytes = 0, !.intr = -1]

\* A result whose handling computes nothing that can overflow.
Deliver(m, res) == DeliverIn(m, res, FALSE)

\* Lines 417-422: fifo_data::<RX> up to its first bus step.
FifoDataStart(m) ==
    IF m.call.RX > 0
    THEN [m EXCEPT !.pc = "f_status", !.valid_bytes = 0]
    ELSE Deliver(m, CommOk(EmptyFifo(m.call.RX)))

\* Lines 357-365
FullBytesNum(c) ==
    IF c.tx_last_bits = 0 THEN ArrLen(c.tx_buffer) ELSE ArrLen(c.tx_buffer) - 1

TxFlags(c) ==
    (FullBytesNum(c) * 64) + Shl8(BitAnd(c.tx_last_bits, 7), 3)
    + (IF c.with_anti_collision THEN 1 ELSE 0)

Become(m) ==
    /\ pc' = m.pc
    /\ ctx' = m.ctx
    /\ call' = m.call
    /\ cascade_level' = m.cascade_level
    /\ uid_bytes' = m.uid_bytes
    /\ uid_idx' = m.uid_idx
    /\ known_bits' = m.known_bits
    /\ tx' = m.tx
    /\ anticollision_cycle_counter' = m.anticollision_cycle_counter
    /\ coll_pos' = m.coll_pos
    /\ poll_i' = m.poll_i
    /\ intr' = m.intr
    /\ valid_bytes' = m.valid_bytes
    /\ result' = m.result
    /\ acTx' = m.acTx
    /\ acColl' = m.acColl
    /\ levelUid' = m.levelUid
    /\ commOut' = m.commOut

\* A bus operation that is tried again after a fault.
BusStep_retry(at, o, m) ==
    /\ pc = at
    /\ lastOp' = o
    /\ \/ \E e \in BusFaults : raised' = e /\ Become(Cur)
       \/ raised' = "" /\ Become(m)
    /\ UNCHANGED <<collLevel, cb, bus, op, waited>>

\* One bus operation (one with_cs_high scope) issued at `at`: it fails with a
\* bus or chip-select fault, or the operation goes on as `m`.
BusStep(at, o, m) ==
    /\ pc = at
    /\ lastOp' = o
    /\ \/ \E e \in BusFaults : raised' = e /\ Become(Deliver(Cur, CommErr(e)))
       \/ raised' = "" /\ Become(m)
    /\ UNCHANGED <<collLevel, cb, bus, op, waited>>

\* Line 447 (setup_interrupt_mask, called at line 352)
SetupInterruptMaskWrite ==
    BusStep("c_mask",
            BusOp("write_register", "MaskInterrupt", <<BitNot(END_OF_RECEIVE)>>),
            [Cur EXCEPT !.pc = "c_irq"])

\* Line 449
SetupInterruptMaskRead ==
    BusStep("c_irq", BusOp("read_register", "Interrupt", <<>>),
            [Cur EXCEPT !.pc = IF ctx \in {"reqa", "wupa"} THEN "q_tx"
                               ELSE "c_clear"])

\* Line 354
CommClear ==
    BusStep("c_clear", BusOp("execute_command", "Clear", <<>>),
            [Cur EXCEPT !.pc = "c_ntb0"])

\* Line 370
CommBytes0 ==
    BusStep("c_ntb0",
            BusOp("write_register", "NumberOfTransmittedBytes0",
                  <<TxFlags(call) % 256>>),
            [Cur EXCEPT !.pc = "c_ntb1"])

\* Lines 371-374
CommBytes1 ==
    BusStep("c_ntb1",
            BusOp("write_register", "NumberOfTransmittedBytes1",
                  <<(FullBytesNum(call) \div 4) % 256>>),
            [Cur EXCEPT !.pc = "c_rxcfg"])

\* Line 377
CommReceiverConfiguration ==
    BusStep("c_rxcfg", BusOp("write_register", "ReceiverConfiguration", <<128>>),
            [Cur EXCEPT !.pc = "c_cfg3"])

\* The transmission started without the frame being pushed.
CommConfiguration3_unpushed ==
    BusStep("c_cfg3",
            BusOp("write_register", "ConfigurationRegister3",
                  <<IF call.with_crc THEN 0 ELSE 128>>),
            [Cur EXCEPT !.pc = "c_tx"])

\* Lines 379-383
CommConfiguration3 ==
    BusStep("c_cfg3",
            BusOp("write_register", "ConfigurationRegister3",
                  <<IF call.with_crc THEN 0 ELSE 128>>),
            [Cur EXCEPT !.pc = "c_fifo"])

\* Line 385; the history takes the UID bytes of a Select frame.
CommWriteFifo ==
    BusStep("c_fifo", BusOp("write_fifo", "FIFO", ArrSeq(call.tx_buffer)),
            [Cur EXCEPT !.pc = "c_tx",
                        !.levelUid =
                            IF ctx = "sel" /\ cascade_level \in 0 .. 2
                            THEN [levelUid EXCEPT ![cascade_level] =
                                     Slice(call.tx_buffer, 2, 6)]
                            ELSE levelUid])

\* Lines 387-391, and line 513; the history counts anti-collision frames.
CommTransmit ==
    /\ pc = "c_tx"
    /\ lastOp' = BusOp("execute_command",
                        IF call.with_crc THEN "TransmitWithCRC"
                        ELSE "TransmitWithoutCRC", <<>>)
    /\ LET h == [Cur EXCEPT !.acTx = IF ctx = "ac" THEN acTx + 1 ELSE acTx] IN
       \/ /\ \E e \in BusFaults : raised' = e /\ Become(Deliver(h, CommErr(e)))
          /\ UNCHANGED waited
       \/ /\ raised' = ""
          /\ waited' = NoWait
          /\ Become([h EXCEPT !.pc = "w_poll", !.poll_i = 0])
    /\ UNCHANGED <<collLevel, cb, bus, op>>

\* The test of line 397 on the CRC-error flag.
HasCollision_crc(flags) == BitAnd(flags, 2) # 0

\* Line 397: intr.contains(InterruptFlags::BIT_COLLISION)
HasCollision(flags) == BitAnd(flags, BIT_COLLISION) # 0

\* The poll loop without `i += 1`.
WaitPoll_uncounted ==
    /\ pc = "w_poll"
    /\ \/ /\ raised' = "InterruptPin"
          /\ waited' = [waited EXCEPT !.polls = @ + 1, !.line = "fault"]
          /\ Become(Deliver(Cur, CommErr("InterruptPin")))
       \/ /\ raised' = ""
          /\ waited' = [waited EXCEPT !.polls = @ + 1, !.line = "high"]
          /\ Become([Cur EXCEPT !.pc = "w_irq", !.poll_i = 0])
       \/ /\ poll_i >= WaitTimeout
          /\ raised' = "InterruptTimeout"
          /\ waited' = [waited EXCEPT !.polls = @ + 1, !.line = "low"]
          /\ Become(Deliver(Cur, CommErr("InterruptTimeout")))
       \/ /\ poll_i < WaitTimeout
          /\ raised' = ""
          /\ waited' = [waited EXCEPT !.polls = @ + 1, !.delays = @ + 1,
                                      !.line = "low"]
          /\ Become(Cur)
    /\ UNCHANGED <<collLevel, cb, bus, op, lastOp>>

\* Lines 514-528: one reading of the interrupt line. Once the line is read
\* high, i is not read again.
WaitPoll ==
    /\ pc = "w_poll"
    /\ \/ /\ raised' = "InterruptPin"
          /\ waited' = [waited EXCEPT !.polls = @ + 1, !.line = "fault"]
          /\ Become(Deliver(Cur, CommErr("InterruptPin")))
       \/ /\ raised' = ""
          /\ waited' = [waited EXCEPT !.polls = @ + 1, !.line = "high"]
          /\ Become([Cur EXCEPT !.pc = "w_irq", !.poll_i = 0])
       \/ /\ poll_i >= WaitTimeout
          /\ raised' = "InterruptTimeout"
          /\ waited' = [waited EXCEPT !.polls = @ + 1, !.line = "low"]
          /\ Become(Deliver(Cur, CommErr("InterruptTimeout")))
       \/ /\ poll_i < WaitTimeout
          /\ raised' = ""
          /\ waited' = [waited EXCEPT !.polls = @ + 1, !.delays = @ + 1,
                                      !.line = "low"]
          /\ Become([Cur EXCEPT !.poll_i = poll_i + 1])
    /\ UNCHANGED <<collLevel, cb, bus, op, lastOp>>

\* The register is read and the flags of the read before it are returned.
WaitReadInterrupt_stale ==
    /\ pc = "w_irq"
    /\ \/ /\ lastOp' = BusOp("read_register", "Interrupt", <<>>)
          /\ waited' = [waited EXCEPT !.irq_reads = @ + 1]
          /\ \E e \in BusFaults : raised' = e /\ Become(Deliver(Cur, CommErr(e)))
       \/ \E v \in IntrValsNow :
            LET m == Cur IN
            /\ lastOp' = BusOp("read_register", "Interrupt", <<v>>)
            /\ waited' = WaitReturned
            /\ IF ctx \in {"reqa", "wupa"}
               THEN raised' = "" /\ Become([m EXCEPT !.pc = "q_status"])
               ELSE IF HasCollision(m.intr)
               THEN /\ raised' = "Collision"
                    /\ Become(Deliver(m, CommErr("Collision")))
               ELSE raised' = "" /\ Become(FifoDataStart(m))
    /\ UNCHANGED <<collLevel, cb, bus, op>>

\* Lines 516-518 and 393-401: the interrupt register is read and decoded.
WaitReadInterrupt ==
    /\ pc = "w_irq"
    /\ \/ /\ lastOp' = BusOp("read_register", "Interrupt", <<>>)
          /\ waited' = [waited EXCEPT !.irq_reads = @ + 1]
          /\ \E e \in BusFaults : raised' = e /\ Become(Deliver(Cur, CommErr(e)))
       \/ \E v \in IntrValsNow :
            LET m == [Cur EXCEPT !.intr = BitAnd(v, 255)] IN
            /\ lastOp' = BusOp("read_register", "Interrupt", <<v>>)
            /\ waited' = WaitReturned
            /\ IF ctx \in {"reqa", "wupa"}
               THEN raised' = "" /\ Become([m EXCEPT !.pc = "q_status"])
               ELSE IF HasCollision(m.intr)
               THEN /\ raised' = "Collision"
                    /\ Become(Deliver(m, CommErr("Collision")))
               ELSE raised' = "" /\ Become(FifoDataStart(m))
    /\ UNCHANGED <<collLevel, cb, bus, op>>

\* The test of line 427 with one byte too many let through.
NoRoom_late(n, RX) == n > RX + 1

\* Line 427: valid_bytes > RX
NoRoom(n, RX) == n > RX

\* Lines 423-430
FifoStatus ==
    /\ pc = "f_status"
    /\ \/ /\ lastOp' = BusOp("read_register", "FIFOStatus", <<>>)
          /\ \E e \in BusFaults : raised' = e /\ Become(Deliver(Cur, CommErr(e)))
       \/ \E fifo_status \in FifoStatusVals :
            LET n == Shr8(fifo_status, 2)
                m == [Cur EXCEPT !.valid_bytes = n]
            IN
            /\ lastOp' = BusOp("read_register", "FIFOStatus", <<fifo_status>>)
            /\ IF NoRoom(n, call.RX)
               THEN raised' = "NoRoom" /\ Become(Deliver(m, CommErr("NoRoom")))
               ELSE IF n > 0
               THEN raised' = "" /\ Become([m EXCEPT !.pc = "f_read"])
               ELSE /\ raised' = ""
                    /\ \E checks \in OverflowChecks :
                         Become(DeliverIn(m, CommOk(EmptyFifo(call.RX)), checks))
    /\ UNCHANGED <<collLevel, cb, bus, op, waited>>

\* Lines 431 and 438-442
FifoRead ==
    /\ pc = "f_read"
    /\ \/ /\ lastOp' = BusOp("read_fifo", "FIFO", <<>>)
          /\ \E e \in BusFaults : raised' = e /\ Become(Deliver(Cur, CommErr(e)))
       \/ \E f \in FifoFrames, checks \in OverflowChecks :
            /\ raised' = ""
            /\ lastOp' = BusOp("read_fifo", "FIFO", ArrSeq(Slice(f, 0, valid_bytes)))
            /\ Become(DeliverIn(Cur,
                  CommOk([buffer |-> [k \in 0 .. call.RX - 1 |->
                                         IF k < valid_bytes THEN f[k] ELSE 0],
                          valid_bytes |-> valid_bytes,
                          valid_bits |-> 0]), checks))
    /\ UNCHANGED <<collLevel, cb, bus, op, waited>>

\* Line 270
ReadCollision ==
    /\ pc = "s_collreg"
    /\ \/ /\ lastOp' = BusOp("read_register", "Collision", <<>>)
          /\ \E e \in BusFaults : raised' = e /\ Become(Return(Cur, Err(e)))
       \/ \E coll_reg \in CollRegs, checks \in OverflowChecks :
            /\ raised' = ""
            /\ lastOp' = BusOp("read_register", "Collision", <<coll_reg>>)
            /\ Become(OnCollisionRegister(Cur, coll_reg, checks))
    /\ UNCHANGED <<collLevel, cb, bus, op, waited>>

---------------------------------------------------------------------------
(* The operations *)

\* Lines 228-231
CallSelect ==
    /\ pc = "idle"
    /\ op' = "select"
    /\ lastOp' = NoOp
    /\ raised' = ""
    /\ waited' = NoWait
    /\ Become([Fresh EXCEPT !.pc = "cascade"])
    /\ UNCHANGED <<collLevel, cb, bus>>

\* Line 232: 'cascade: loop
Cascade ==
    /\ pc = "cascade"
    /\ Become(CascadeRound(Cur))
    /\ raised' = ""
    /\ UNCHANGED <<collLevel, cb, bus, op, lastOp, waited>>

\* Line 244: 'anticollision: loop
AntiCollision ==
    /\ pc = "anticollision"
    /\ Become(AntiCollisionRound(Cur))
    /\ raised' = ""
    /\ UNCHANGED <<collLevel, cb, bus, op, lastOp, waited>>

\* Line 221
CallHlta ==
    /\ pc = "idle"
    /\ op' = "hlta"
    /\ lastOp' = NoOp
    /\ Become([Fresh EXCEPT !.pc = "c_mask", !.ctx = "hlta",
                            !.call = [tx_buffer |-> [k \in 0 .. 1 |-> <<80, 0>>[k + 1]],
                                      tx_last_bits |-> 0,
                                      with_anti_collision |-> FALSE,
                                      with_crc |-> TRUE, RX |-> 0]])
    /\ raised' = ""
    /\ waited' = NoWait
    /\ UNCHANGED <<collLevel, cb, bus>>

\* Calls of communicate_to_picc::<RX> by the user of the driver.
CommCalls ==
    { [tx_buffer |-> [k \in 0 .. 4 |-> <<1, 2, 3, 4, 5>>[k + 1]], tx_last_bits |-> 0,
       with_anti_collision |-> FALSE, with_crc |-> TRUE, RX |-> 5],
      [tx_buffer |-> [k \in 0 .. 0 |-> 38], tx_last_bits |-> 7,
       with_anti_collision |-> TRUE, with_crc |-> FALSE, RX |-> 1],
      [tx_buffer |-> [k \in 0 .. 1 |-> <<48, 0>>[k + 1]], tx_last_bits |-> 0,
       with_anti_collision |-> FALSE, with_crc |-> TRUE, RX |-> 0] }

\* Lines 342-351
CallCommunicate ==
    /\ pc = "idle"
    /\ op' = "communicate"
    /\ lastOp' = NoOp
    /\ raised' = ""
    /\ waited' = NoWait
    /\ \E c \in CommCalls :
          Become([Fresh EXCEPT !.pc = "c_mask", !.ctx = "comm", !.call = c])
    /\ UNCHANGED <<collLevel, cb, bus>>

\* Line 173
CallReqa ==
    /\ pc = "idle"
    /\ op' = "reqa"
    /\ lastOp' = NoOp
    /\ raised' = ""
    /\ waited' = NoWait
    /\ Become([Fresh EXCEPT !.pc = "q_clear", !.ctx = "reqa"])
    /\ UNCHANGED <<collLevel, cb, bus>>

\* Line 195
CallWupa ==
    /\ pc = "idle"
    /\ op' = "wupa"
    /\ lastOp' = NoOp
    /\ raised' = ""
    /\ waited' = NoWait
    /\ Become([Fresh EXCEPT !.pc = "c_mask", !.ctx = "wupa"])
    /\ UNCHANGED <<collLevel, cb, bus>>

\* Line 174
ReqaClear ==
    BusStep("q_clear", BusOp("execute_command", "Clear", <<>>),
            [Cur EXCEPT !.pc = "q_cfg3"])

\* Line 175
ReqaConfiguration3 ==
    BusStep("q_cfg3", BusOp("write_register", "ConfigurationRegister3", <<128>>),
            [Cur EXCEPT !.pc = "c_mask"])

\* Lines 177-179 and 197-199: the wake-up command, then the wait.
WakeTransmit ==
    /\ pc = "q_tx"
    /\ lastOp' = BusOp("execute_command",
                        IF ctx = "reqa" THEN "TransmitREQA" ELSE "TransmitWUPA",
                        <<>>)
    /\ \/ /\ \E e \in BusFaults : raised' = e /\ Become(Deliver(Cur, CommErr(e)))
          /\ UNCHANGED waited
       \/ /\ raised' = ""
          /\ waited' = NoWait
          /\ Become([Cur EXCEPT !.pc = "w_poll", !.poll_i = 0])
    /\ UNCHANGED <<collLevel, cb, bus, op>>

\* The status register compared without the shift.
NoPicc_unshifted(fifo_reg) == fifo_reg = 63

\* Lines 181-186 and 201-206: no card when the upper six bits are all ones.
NoPicc(fifo_reg) == Shr8(fifo_reg, 2) = 63

WakeStatus ==
    /\ pc = "q_status"
    /\ \/ /\ lastOp' = BusOp("read_register", "FIFOStatus", <<>>)
          /\ \E e \in BusFaults : raised' = e /\ Become(Deliver(Cur, CommErr(e)))
       \/ \E fifo_reg \in FifoStatusVals :
            /\ lastOp' = BusOp("read_register", "FIFOStatus", <<fifo_reg>>)
            /\ raised' = ""
            /\ IF NoPicc(fifo_reg) THEN Become(Return(Cur, OkNone))
               ELSE Become([Cur EXCEPT !.pc = "q_read"])
    /\ UNCHANGED <<collLevel, cb, bus, op, waited>>

\* Lines 187-191 and 207-211: the two bytes of the answer.
AtqaLen == 2

WakeRead ==
    /\ pc = "q_read"
    /\ \/ /\ lastOp' = BusOp("read_fifo", "FIFO", <<>>)
          /\ \E e \in BusFaults : raised' = e /\ Become(Deliver(Cur, CommErr(e)))
       \/ \E f \in FifoFrames :
            /\ lastOp' = BusOp("read_fifo", "FIFO", ArrSeq(Slice(f, 0, AtqaLen)))
            /\ raised' = ""
            /\ Become(Return(Cur, OkAtqA(Slice(f, 0, AtqaLen))))
    /\ UNCHANGED <<collLevel, cb, bus, op, waited>>

\* The caller has the result; the driver is ready for the next operation.
Finish ==
    /\ pc = "done"
    /\ op' = "none"
    /\ lastOp' = NoOp
    /\ raised' = ""
    /\ waited' = NoWait
    /\ Become(Fresh)
    /\ UNCHANGED <<collLevel, cb, bus>>

---------------------------------------------------------------------------
(* The copy_bits_to harness: every input within the bounds, one call. *)

CopyL == 2

CopyDstLen == 3

CopySrcBytes == {171, 240}

CopyDstBytes == {5, 255}

CopyValidBits == {0, 3}

CopyInputs ==
    [self : [buffer : [0 .. CopyL - 1 -> CopySrcBytes],
             valid_bytes : 0 .. CopyL,
             valid_bits : CopyValidBits],
     dst : [0 .. CopyDstLen - 1 -> CopyDstBytes],
     dst_valid_bits : 0 .. 8 * CopyDstLen + 7]

NoOut == [panic |-> FALSE, ovf |-> FALSE, dst |-> Zeros(0), ret |-> 0]

CbIdle ==
    [stage |-> "idle", self |-> EmptyFifo(0), dst |-> Zeros(0),
     dst_valid_bits |-> 0, out |-> NoOut]

---------------------------------------------------------------------------
(* The codec: register addresses (register.rs) and command patterns       *)
(* (command.rs)                                                            *)

\* register.rs, lines 4-36
RegisterCode ==
    [ModeDefinition |-> 0, OperationControl |-> 1,
     ConfigurationRegister2 |-> 2, ConfigurationRegister3 |-> 3,
     ConfigurationRegister4 |-> 4, ConfigurationRegister5 |-> 5,
     ReceiverConfiguration |-> 6, MaskInterrupt |-> 7, Interrupt |-> 8,
     FIFOStatus |-> 9, Collision |-> 10,
     NumberOfTransmittedBytes0 |-> 11, NumberOfTransmittedBytes1 |-> 12,
     ADConverterOutput |-> 13, AntennaCalibration |-> 14, ExternalTrim |-> 15,
     ModularDepthDefinition |-> 16, ModularDepthDisplay |-> 17,
     AntennaDriverAMModulatedLevelDefinition |-> 18,
     AntennaDriverNonModulatedLevelDefinition |-> 19,
     NFCIPFieldDetectionThreshold |-> 20,
     RegulatorsDisplay |-> 21, RegulatedVoltageDefinition |-> 22,
     ReceiverStateDisplay |-> 23]

Registers == DOMAIN RegisterCode

\* command.rs, lines 4-47
CommandCode ==
    [SetDefault |-> 1, Clear |-> 2, TransmitWithCRC |-> 4,
     TransmitWithoutCRC |-> 5, TransmitREQA |-> 6, TransmitWUPA |-> 7,
     NFCTransmitWithInitialRFCollisionAvoidance |-> 8,
     NFCTransmitWithResponseRFCollisionAvoidance |-> 9,
     NFCTransmitWithResponseRFCollisionAvoidanceWithN0 |-> 10,
     MaskReceiveData |-> 16, UnmaskReceiveData |-> 17, ADConvert |-> 18,
     MeasureRF |-> 19, Squelch |-> 20, ClearSquelch |-> 21,
     AdjustRegulators |-> 22, CalibrateModulationDepth |-> 23,
     CalibrateAntenna |-> 24, CheckAntennaResonance |-> 25, ClearRSSI |-> 26,
     EnterTransparentMode |-> 28]

Commands == DOMAIN CommandCode

\* register.rs, lines 45-46
R == Shl8(1, 6)

W == Shl8(0, 6)

\* command.rs, line 55
C == (Shl8(1, 7) + Shl8(1, 6)) % 256

\* The read address with the direction bit left out.
read_address_plain(reg) == BitOr(RegisterCode[reg], W)

\* register.rs, lines 49-51
read_address(reg) == BitOr(RegisterCode[reg], R)

\* register.rs, lines 53-55
write_address(reg) == BitOr(RegisterCode[reg], W)

\* command.rs, lines 58-60
command_pattern(cmd) == BitOr(CommandCode[cmd], C)

---------------------------------------------------------------------------
(* The transport: the bus calls of the driver as sequences of pin and bus *)
(* steps, run one step at a time                                           *)

Step(do, bytes) == [do |-> do, bytes |-> bytes]

Transfer(bytes) == Step("transfer", bytes)

SpiWrite(bytes) == Step("write", bytes)

Repeat(item, n) == [k \in 1 .. n |-> item]

\* The scope of as3910_2_7.rs without the final set_low.
with_cs_high_held(f) == <<Step("set_high", <<>>)>> \o f

\* as3910_2_7.rs, lines 61-70: set_high, the closure, set_low.
with_cs_high(f) == <<Step("set_high", <<>>)>> \o f \o <<Step("set_low", <<>>)>>

\* as3910_2_7.rs, lines 21-29
as3910_2_7_read(reg) == with_cs_high(<<Transfer(<<read_address(reg), 0>>)>>)

\* as3910_2_7.rs, lines 48-50
as3910_2_7_write(reg, val) ==
    with_cs_high(<<SpiWrite(<<write_address(reg), val>>)>>)

\* The scope of the SpiWithCustomCS implementation: chip-select asserted,
\* the closure, chip-select deasserted.
manager_with_cs_high(f) ==
    <<Step("assert", <<>>)>> \o f \o <<Step("deassert", <<>>)>>

\* lib.rs, lines 531-537
write(bytes) == manager_with_cs_high(<<SpiWrite(bytes)>>)

\* lib.rs, lines 452-454
execute_command(command) == write(<<command_pattern(command)>>)

\* lib.rs, lines 456-458
write_register(reg, val) == write(<<write_address(reg), val>>)

\* lib.rs, lines 460-468
read_register(reg) ==
    manager_with_cs_high(<<Transfer(<<read_address(reg), 0>>)>>)

\* lib.rs, lines 487-499
read_fifo(n) ==
    manager_with_cs_high(<<Transfer(<<191>>)>> \o Repeat(Transfer(<<0>>), n))

\* The FIFO push with its header sent before the scope is opened.
write_fifo_early(bytes) ==
    <<Transfer(<<128>>)>> \o manager_with_cs_high(<<SpiWrite(bytes)>>)

\* lib.rs, lines 501-510
write_fifo(bytes) ==
    manager_with_cs_high(<<Transfer(<<128>>), SpiWrite(bytes)>>)

\* The longest FIFO pop of the harness.
MaxPop == 2

TransportCall(impl, kind, reg, cmd, bytes, n) ==
    [impl |-> impl, kind |-> kind, reg |-> reg, cmd |-> cmd, bytes |-> bytes,
     n |-> n]

TransportCalls ==
    {TransportCall("as3910_2_7", "read", r, "Clear", <<>>, 0) :
        r \in {"Interrupt", "FIFOStatus"}}
    \cup {TransportCall("as3910_2_7", "write", "MaskInterrupt", "Clear", <<v>>, 0) :
             v \in {0, 231}}
    \cup {TransportCall("lib", "read_register", r, "Clear", <<>>, 0) :
             r \in {"Interrupt", "Collision"}}
    \cup {TransportCall("lib", "write_register", "ConfigurationRegister3", "Clear",
                        <<128>>, 0)}
    \cup {TransportCall("lib", "execute_command", "Interrupt", c, <<>>, 0) :
             c \in {"Clear", "TransmitREQA"}}
    \cup {TransportCall("lib", "write_fifo", "Interrupt", "Clear", b, 0) :
             b \in {<<>>, <<147, 32>>}}
    \cup {TransportCall("lib", "read_fifo", "Interrupt", "Clear", <<>>, n) :
             n \in 0 .. MaxPop}

PlanOf(c) ==
    CASE c.kind = "read" -> as3910_2_7_read(c.reg)
      [] c.kind = "write" -> as3910_2_7_write(c.reg, c.bytes[1])
      [] c.kind = "read_register" -> read_register(c.reg)
      [] c.kind = "write_register" -> write_register(c.reg, c.bytes[1])
      [] c.kind = "execute_command" -> execute_command(c.cmd)
      [] c.kind = "write_fifo" -> write_fifo(c.bytes)
      [] c.kind = "read_fifo" -> read_fifo(c.n)

\* What is left of a plan when a bus exchange fails: the `?` leaves the
\* closure, and the scope it ran in still ends.
RECURSIVE Unwind(_)
Unwind(plan) ==
    IF plan = <<>> THEN <<>>
    ELSE IF Head(plan).do \in {"set_low", "deassert"} THEN plan
    ELSE Unwind(Tail(plan))

TransportIdle ==
    [stage |-> "idle", call |-> TransportCall("lib", "none", "Interrupt", "Clear",
                                              <<>>, 0),
     plan |-> <<>>, cs |-> "low", depth |-> 0, scopes |-> 0, events |-> <<>>,
     wire |-> <<>>, outside |-> 0, f_result |-> "ok", ret |-> "none"]

TransportRest ==
    UNCHANGED <<collLevel, cb, op, pc, ctx, call, cascade_level, uid_bytes,
                uid_idx, known_bits, tx, anticollision_cycle_counter,
                coll_pos, poll_i, intr, valid_bytes, result, lastOp, acTx,
                acColl, levelUid, commOut, raised, waited>>

TransportStart ==
    /\ bus.stage = "idle"
    /\ \E c \in TransportCalls :
          bus' = [TransportIdle EXCEPT !.stage = "run", !.call = c,
                                       !.plan = PlanOf(c)]
    /\ TransportRest

TransportAt(do) ==
    /\ bus.stage = "run"
    /\ bus.plan # <<>>
    /\ Head(bus.plan).do \in do

\* as3910_2_7.rs, line 66: the Result of set_high is dropped; a failed call
\* leaves the line at either level.
CsSetHigh ==
    /\ TransportAt({"set_high"})
    /\ \E level \in {"high", "low"}, fault \in BOOLEAN :
          /\ ~fault => level = "high"
          /\ bus' = [bus EXCEPT !.plan = Tail(bus.plan),
                                !.cs = level,
                                !.depth = bus.depth + 1,
                                !.scopes = bus.scopes + 1,
                                !.events = Append(bus.events,
                                    IF fault THEN "set_high failed"
                                    ELSE "set_high")]
    /\ TransportRest

\* as3910_2_7.rs, line 68: the Result of set_low is dropped.
CsSetLow ==
    /\ TransportAt({"set_low"})
    /\ \E level \in {"high", "low"}, fault \in BOOLEAN :
          /\ ~fault => level = "low"
          /\ bus' = [bus EXCEPT !.plan = Tail(bus.plan),
                                !.cs = level,
                                !.depth = bus.depth - 1,
                                !.events = Append(bus.events,
                                    IF fault THEN "set_low failed"
                                    ELSE "set_low")]
    /\ TransportRest

\* The SpiWithCustomCS implementation asserts chip-select; a pin fault is
\* returned as WithHighError::CS and the closure does not run.
ManagerAssert ==
    /\ TransportAt({"assert"})
    /\ \/ bus' = [bus EXCEPT !.plan = Tail(bus.plan),
                             !.cs = "high",
                             !.depth = bus.depth + 1,
                             !.scopes = bus.scopes + 1,
                             !.events = Append(bus.events, "assert")]
       \/ bus' = [bus EXCEPT !.plan = <<>>,
                             !.scopes = bus.scopes + 1,
                             !.f_result = "SpiManager(CS)",
                             !.events = Append(bus.events, "assert failed")]
    /\ TransportRest

\* The SpiWithCustomCS implementation deasserts chip-select, whatever the
\* closure returned.
ManagerDeassert ==
    /\ TransportAt({"deassert"})
    /\ bus' = [bus EXCEPT !.plan = Tail(bus.plan),
                          !.cs = "low",
                          !.depth = bus.depth - 1,
                          !.events = Append(bus.events, "deassert")]
    /\ TransportRest

\* One spi.transfer or spi.write of a closure.
Exchange ==
    /\ TransportAt({"transfer", "write"})
    /\ \/ bus' = [bus EXCEPT !.plan = Tail(bus.plan),
                             !.wire = bus.wire \o Head(bus.plan).bytes,
                             !.outside = bus.outside
                                 + (IF bus.depth = 0 THEN 1 ELSE 0),
                             !.events = Append(bus.events, "exchange")]
       \/ bus' = [bus EXCEPT !.plan = IF bus.depth = 0 THEN <<>>
                                      ELSE Unwind(bus.plan),
                             !.f_result = IF bus.call.impl = "lib"
                                          THEN "SpiManager(SPI)" ELSE "SPI",
                             !.outside = bus.outside
                                 + (IF bus.depth = 0 THEN 1 ELSE 0),
                             !.events = Append(bus.events, "exchange failed")]
    /\ TransportRest

TransportReturn ==
    /\ bus.stage = "run"
    /\ bus.plan = <<>>
    /\ bus' = [bus EXCEPT !.stage = "out", !.ret = bus.f_result]
    /\ TransportRest

TransportReset ==
    /\ bus.stage = "out"
    /\ bus' = TransportIdle
    /\ TransportRest

\* The codec harness: a pair of registers or a command, encoded in one step.
CodecInputs ==
    [kind : {"registers"}, reg : Registers, other : Registers, cmd : {"Clear"}]
    \cup [kind : {"command"}, reg : {"Interrupt"}, other : {"Interrupt"},
          cmd : Commands]

CodecApply ==
    /\ bus.stage = "codec"
    /\ bus' = [bus EXCEPT !.stage = "coded",
                          !.read = read_address(bus.reg),
                          !.write = write_address(bus.reg),
                          !.other_read = read_address(bus.other),
                          !.other_write = write_address(bus.other),
                          !.pattern = command_pattern(bus.cmd)]
    /\ UNCHANGED <<collLevel, cb, op, pc, ctx, call, cascade_level, uid_bytes,
                   uid_idx, known_bits, tx, anticollision_cycle_counter,
                   coll_pos, poll_i, intr, valid_bytes, result, lastOp, acTx,
                   acColl, levelUid, commOut, raised, waited>>

\* No bus call under way in the transport harness.
BusIdle == [stage |-> "idle"]

DriverIdle ==
    /\ op = "none"
    /\ lastOp = NoOp
    /\ pc = Fresh.pc
    /\ ctx = Fresh.ctx
    /\ call = Fresh.call
    /\ cascade_level = Fresh.cascade_level
    /\ uid_bytes = Fresh.uid_bytes
    /\ uid_idx = Fresh.uid_idx
    /\ known_bits = Fresh.known_bits
    /\ tx = Fresh.tx
    /\ anticollision_cycle_counter = Fresh.anticollision_cycle_counter
    /\ coll_pos = Fresh.coll_pos
    /\ poll_i = Fresh.poll_i
    /\ intr = Fresh.intr
    /\ valid_bytes = Fresh.valid_bytes
    /\ result = Fresh.result
    /\ acTx = Fresh.acTx
    /\ acColl = Fresh.acColl
    /\ levelUid = Fresh.levelUid
    /\ commOut = Fresh.commOut
    /\ raised = ""
    /\ waited = NoWait

driverVars ==
    <<op, pc, ctx, call, cascade_level, uid_bytes, uid_idx, known_bits, tx,
      anticollision_cycle_counter, coll_pos, poll_i, intr, valid_bytes, result,
      lastOp, acTx, acColl, levelUid, commOut, raised, waited>>

vars == <<collLevel, cb, bus, driverVars>>

InitCopy ==
    /\ collLevel = 0
    /\ bus = BusIdle
    /\ DriverIdle
    /\ \E inp \in CopyInputs :
          cb = [stage |-> "in", self |-> inp.self, dst |-> inp.dst,
                dst_valid_bits |-> inp.dst_valid_bits, out |-> NoOut]

CopyCall ==
    /\ cb.stage = "in"
    /\ cb' = [cb EXCEPT !.stage = "out",
                        !.out = CopyBitsTo(cb.self, cb.dst, cb.dst_valid_bits)]
    /\ UNCHANGED <<collLevel, bus, driverVars>>

NextCopy == CopyCall

SpecCopy == InitCopy /\ [][NextCopy]_vars

---------------------------------------------------------------------------
(* The codec harness: every register pair and every command, encoded once *)

InitCodec ==
    /\ collLevel = 0
    /\ cb = CbIdle
    /\ DriverIdle
    /\ \E inp \in CodecInputs :
          bus = [stage |-> "codec", kind |-> inp.kind, reg |-> inp.reg,
                 other |-> inp.other, cmd |-> inp.cmd,
                 read |-> 0, write |-> 0, other_read |-> 0, other_write |-> 0,
                 pattern |-> 0]

NextCodec == CodecApply

SpecCodec == InitCodec /\ [][NextCodec]_vars

---------------------------------------------------------------------------
(* The transport harness: any sequence of bus calls over a faulty bus *)

InitTransport ==
    /\ collLevel = 0
    /\ cb = CbIdle
    /\ DriverIdle
    /\ bus = TransportIdle

NextTransport ==
    \/ TransportStart
    \/ CsSetHigh
    \/ CsSetLow
    \/ ManagerAssert
    \/ ManagerDeassert
    \/ Exchange
    \/ TransportReturn
    \/ TransportReset

SpecTransport == InitTransport /\ [][NextTransport]_vars

---------------------------------------------------------------------------
(* The decoding of the collision register: every value of the register *)

CollRegValues == 0 .. 255

InitDecode ==
    /\ collLevel = 0
    /\ cb = CbIdle
    /\ DriverIdle
    /\ \E coll_reg \in CollRegValues :
          bus = [stage |-> "decode", coll_reg |-> coll_reg,
                 out |-> [ovf |-> FALSE, pos |-> 0]]

\* Lines 272-275
Decode ==
    /\ bus.stage = "decode"
    /\ bus' = [bus EXCEPT !.stage = "decoded", !.out = CollPos(bus.coll_reg)]
    /\ TransportRest

NextDecode == Decode

SpecDecode == InitDecode /\ [][NextDecode]_vars

---------------------------------------------------------------------------
(* The driver: any sequence of operations against any chip *)

Init ==
    /\ collLevel \in 0 .. MaxCollLevel
    /\ cb = CbIdle
    /\ bus = BusIdle
    /\ DriverIdle

Next ==
    \/ CallSelect
    \/ CallHlta
    \/ CallReqa
    \/ CallWupa
    \/ CallCommunicate
    \/ ReqaClear
    \/ ReqaConfiguration3
    \/ WakeTransmit
    \/ WakeStatus
    \/ WakeRead
    \/ Cascade
    \/ AntiCollision
    \/ SetupInterruptMaskWrite
    \/ SetupInterruptMaskRead
    \/ CommClear
    \/ CommBytes0
    \/ CommBytes1
    \/ CommReceiverConfiguration
    \/ CommConfiguration3
    \/ CommWriteFifo
    \/ CommTransmit
    \/ WaitPoll
    \/ WaitReadInterrupt
    \/ FifoStatus
    \/ FifoRead
    \/ ReadCollision
    \/ Finish

Spec == Init /\ [][Next]_vars

---------------------------------------------------------------------------
(* The driver against a chip that answers no anti-collision frame with a   *)
(* bit collision: the runs of Spec in which the collision register is      *)
(* never read.                                                             *)

InitNoCollision ==
    /\ collLevel = -1
    /\ cb = CbIdle
    /\ bus = BusIdle
    /\ DriverIdle

NextNoCollision ==
    \/ CallSelect
    \/ CallHlta
    \/ Cascade
    \/ AntiCollision
    \/ SetupInterruptMaskWrite
    \/ SetupInterruptMaskRead
    \/ CommClear
    \/ CommBytes0
    \/ CommBytes1
    \/ CommReceiverConfiguration
    \/ CommConfiguration3
    \/ CommWriteFifo
    \/ CommTransmit
    \/ WaitPoll
    \/ WaitReadInterrupt
    \/ FifoStatus
    \/ FifoRead
    \/ Finish

SpecNoCollision == InitNoCollision /\ [][NextNoCollision]_vars

---------------------------------------------------------------------------
(* The wake-up operations alone, with the poll loop running on: the runs  *)
(* of Spec made of reqa and wupa, in which a loop that is entered is       *)
(* executed until it returns.                                              *)

InitWait ==
    /\ collLevel = -1
    /\ cb = CbIdle
    /\ bus = BusIdle
    /\ DriverIdle

NextWait ==
    \/ CallReqa
    \/ CallWupa
    \/ ReqaClear
    \/ ReqaConfiguration3
    \/ SetupInterruptMaskWrite
    \/ SetupInterruptMaskRead
    \/ WakeTransmit
    \/ WaitPoll
    \/ WaitReadInterrupt
    \/ WakeStatus
    \/ WakeRead
    \/ Finish

SpecWait == InitWait /\ [][NextWait]_vars /\ WF_vars(WaitPoll)

---------------------------------------------------------------------------
(* Properties of copy_bits_to, over SpecCopy *)

CopyDone == cb.stage = "out"

CopyIdx == cb.dst_valid_bits \div 8

\* C5: with valid_bytes >= 1, copy_bits_to returns dst_valid_bits plus the
\* number of bits of the source (valid_bytes whole bytes and valid_bits bits
\* after them); one full byte appended at dst_valid_bits = 0 returns 8.
C5_ReturnsNewValidBits ==
    (CopyDone /\ cb.self.valid_bytes >= 1 /\ ~cb.out.panic)
        => cb.out.ret = (cb.dst_valid_bits + 8 * cb.self.valid_bytes
                         + cb.self.valid_bits) % 256

\* C6: with valid_bytes >= 1, the boundary byte dst[dst_valid_bits / 8] keeps
\* its low dst_valid_bits % 8 bits and takes the other bits from the same
\* positions of the source's first byte; the following valid_bytes - 1 source
\* bytes are copied whole into the next destination bytes; at a multiple of 8
\* the boundary byte is the source's first byte.
C6_MaskedMerge ==
    (CopyDone /\ cb.self.valid_bytes >= 1 /\ CopyIdx < ArrLen(cb.dst)) =>
        /\ \A b \in 0 .. 7 :
              Bit(cb.out.dst[CopyIdx], b) =
                 IF b < cb.dst_valid_bits % 8
                 THEN Bit(cb.dst[CopyIdx], b)
                 ELSE Bit(cb.self.buffer[0], b)
        /\ cb.dst_valid_bits % 8 = 0 => cb.out.dst[CopyIdx] = cb.self.buffer[0]
        /\ ~cb.out.panic =>
              \A j \in 1 .. cb.self.valid_bytes - 1 :
                 cb.out.dst[CopyIdx + j] = cb.self.buffer[j]

\* The low nibble 0x5 of dst[0] under the source byte 0xF0 gives 0xF5, with a
\* second source byte copied behind it.
C6_Witness ==
    /\ CopyDone
    /\ cb.dst_valid_bits = 4
    /\ cb.self.valid_bytes = 2
    /\ cb.dst[0] = 5
    /\ cb.self.buffer[0] = 240
    /\ cb.out.dst[0] = 245
    /\ cb.out.dst[1] = cb.self.buffer[1]
    /\ ~cb.out.panic

\* C7: with valid_bytes = 0, copy_bits_to returns dst_valid_bits and changes
\* no byte of dst; with valid_bytes >= 1 it changes no byte below index
\* dst_valid_bits / 8 and none at or above dst_valid_bits / 8 + valid_bytes.
C7_Frame ==
    CopyDone =>
        /\ cb.self.valid_bytes = 0 =>
              /\ cb.out.ret = cb.dst_valid_bits
              /\ cb.out.dst = cb.dst
              /\ ~cb.out.panic
        /\ DOMAIN cb.out.dst = DOMAIN cb.dst
        /\ \A k \in DOMAIN cb.dst :
              (k < CopyIdx \/ k >= CopyIdx + cb.self.valid_bytes)
                  => cb.out.dst[k] = cb.dst[k]

\* Two source bytes written at dst[0] and dst[1], dst[2] left alone.
C7_Witness ==
    /\ CopyDone
    /\ cb.self.valid_bytes = 2
    /\ CopyIdx = 0
    /\ ~cb.out.panic
    /\ cb.out.dst[0] # cb.dst[0]
    /\ cb.out.dst[1] # cb.dst[1]
    /\ cb.out.dst[2] = cb.dst[2]

---------------------------------------------------------------------------
(* Properties of select and hlta, over Spec and SpecNoCollision *)

SelectDone == op = "select" /\ pc = "done"

\* The bus operations by which fifo_data takes a frame from the chip.
HarvestOp(o) ==
    \/ o.op = "read_fifo"
    \/ o.op = "read_register" /\ o.target = "FIFOStatus"

\* C1: within one cascade level the anti-collision frame is transmitted at
\* most 32 times; after 32 rounds that each ended in an accepted collision
\* select returns AntiCollisionMaxLoopsReached, and the last bus operation is
\* still the FIFO harvest of the 32nd round's collision handling.
C1_AtMost32Rounds ==
    /\ acTx <= 32
    /\ acColl <= acTx
    /\ acColl = 32 =>
          /\ acTx = 32
          /\ HarvestOp(lastOp)
          /\ \/ pc = "anticollision"
             \/ SelectDone /\ result = Err("AntiCollisionMaxLoopsReached")
    /\ (SelectDone /\ result = Err("AntiCollisionMaxLoopsReached")) =>
          acColl = 32

C1_Witness ==
    /\ SelectDone
    /\ result = Err("AntiCollisionMaxLoopsReached")
    /\ acTx = 32
    /\ acColl = 32

\* C2: whatever the chip answers, select ends with a Uid or an error value,
\* and the cascade level stays in {0, 1, 2}.
C2_UidOrErrorWithinThreeLevels ==
    /\ cascade_level \in {0, 1, 2}
    /\ SelectDone => result.kind \in {"uid", "err"}

\* C3: after a collision whose position is decoded, another round follows
\* only when known_bits < coll_pos <= 72 and select returns the Collision
\* error otherwise; known_bits is larger after each such round.
C3_CollisionAdvances ==
    [][ /\ (pc = "s_collreg" /\ lastOp'.data # <<>>
                /\ ~CollPos(lastOp'.data[1]).ovf) =>
              \/ /\ pc' = "f_status"
                 /\ known_bits < coll_pos'
                 /\ coll_pos' <= 72
              \/ /\ pc' = "done"
                 /\ result' = Err("Collision")
        /\ (ctx = "coll" /\ pc' = "anticollision") => known_bits < known_bits'
      ]_vars

\* C4: known_bits is in 0 .. 40 throughout select, and it is 0 when the
\* first round of a cascade level begins.
C4_KnownBitsRange ==
    /\ known_bits \in 0 .. 40
    /\ (pc = "anticollision" /\ anticollision_cycle_counter = 0) => known_bits = 0

\* The last cascade level for which a Select frame was pushed.
LastLevel ==
    CHOOSE l \in 0 .. 2 :
        /\ ArrLen(levelUid[l]) > 0
        /\ \A j \in 0 .. 2 : j > l => ArrLen(levelUid[j]) = 0

\* The Sak that the last bus operation delivered: the first FIFO byte, or 0
\* in the buffer that an empty FIFO leaves untouched.
SakReceived ==
    IF lastOp.op = "read_fifo" /\ lastOp.data # <<>> THEN lastOp.data[1] ELSE 0

\* C8: the returned Uid is Single with 4 bytes, Double with 7 or Triple with
\* 10 by the cascade level (0, 1, 2) at which the Sak with bit 2 clear came,
\* it carries that Sak, and no bus operation follows the harvest of that Sak.
C8_VariantByLevel ==
    (SelectDone /\ result.kind = "uid") =>
        /\ result.variant = <<"Single", "Double", "Triple">>[LastLevel + 1]
        /\ ArrLen(result.bytes) = <<4, 7, 10>>[LastLevel + 1]
        /\ HarvestOp(lastOp)
        /\ lastOp.data # <<>>
        /\ result.sak = SakReceived
        /\ Bit(result.sak, 2) = 0

C8_Witness ==
    /\ SelectDone
    /\ result.kind = "uid"
    /\ result.variant = "Double"
    /\ LastLevel = 1
    /\ lastOp.op = "read_fifo"

\* The UID bytes that the levels up to last give: bytes 2..4 of each level
\* before it, then the four bytes of level last.
UidOfLevels(last) ==
    [k \in 0 .. 3 * last + 3 |->
        IF k < 3 * last THEN levelUid[k \div 3][1 + (k % 3)]
        ELSE levelUid[last][k - 3 * last]]

\* C9: the Uid's bytes are bytes 2..4 of the UID bytes of every level with an
\* incomplete Sak, in cascade order, then the four UID bytes of the last
\* level; what an earlier level left in the accumulator stays as it is.
C9_UidBytes ==
    /\ (SelectDone /\ result.kind = "uid") =>
          result.bytes = UidOfLevels(LastLevel)
    /\ (op = "select" /\ pc # "done") =>
          \A k \in 0 .. uid_idx - 1 :
              /\ k < ArrLen(uid_bytes)
              /\ uid_bytes[k] = levelUid[k \div 3][1 + (k % 3)]

C9_Witness ==
    /\ SelectDone
    /\ result.kind = "uid"
    /\ result.variant = "Triple"
    /\ result.bytes = UidOfLevels(2)
    /\ levelUid[0][0] = 136
    /\ result.bytes[0] = 4

\* C10: hlta returns success exactly when communicate_to_picc failed with
\* InterruptTimeout, NotAcknowledged when it succeeded, which is when an
\* interrupt without the collision flag was the last thing read, and any
\* other error as it is.
C10_HltaResult ==
    (op = "hlta" /\ pc = "done") =>
        /\ result = OkUnit <=> commOut = "InterruptTimeout"
        /\ commOut = "Ok" <=> result = Err("NotAcknowledged")
        /\ commOut \notin {"Ok", "InterruptTimeout"} => result = Err(commOut)
        /\ commOut = "Ok" <=>
              /\ lastOp = BusOp("read_register", "Interrupt", <<intr>>)
              /\ BitAnd(intr, BIT_COLLISION) = 0

C10_Witness ==
    /\ op = "hlta"
    /\ pc = "done"
    /\ result = OkUnit
    /\ commOut = "InterruptTimeout"
    /\ lastOp = BusOp("execute_command", "TransmitWithCRC", <<>>)

---------------------------------------------------------------------------
(* Properties of reqa and wupa, over Spec *)

WakeOp == op \in {"reqa", "wupa"}

\* The value of a register read that succeeded (-1 otherwise).
StatusRead ==
    IF lastOp.op = "read_register" /\ lastOp.target = "FIFOStatus"
          /\ lastOp.data # <<>>
    THEN lastOp.data[1] ELSE -1

\* C11: in reqa and wupa the FIFO status is read only after the wait has
\* succeeded; if its upper six bits are all ones (252..255) the call returns
\* the empty result with that read as its last bus operation, and otherwise
\* exactly 2 bytes are read from the FIFO and returned as the AtqA.
C11_WakeResult ==
    WakeOp =>
        /\ pc = "q_status" => waited = WaitReturned /\ raised = ""
        /\ pc = "q_read" => StatusRead \in 0 .. 251
        /\ (pc = "done" /\ StatusRead >= 0) =>
              StatusRead \in 252 .. 255 /\ result = OkNone
        /\ result.kind = "empty" => StatusRead \in 252 .. 255
        /\ (pc = "done" /\ lastOp.op = "read_fifo" /\ lastOp.data # <<>>) =>
              /\ Len(lastOp.data) = 2
              /\ result.kind = "atqa"
              /\ ArrSeq(result.bytes) = lastOp.data
        /\ result.kind = "atqa" => lastOp.op = "read_fifo" /\ lastOp.data # <<>>
        /\ result.kind \in {"none", "empty", "atqa", "err"}

C11_Witness ==
    /\ op = "reqa"
    /\ pc = "done"
    /\ result = OkNone
    /\ lastOp = BusOp("read_register", "FIFOStatus", <<255>>)

\* The other case of C11: two bytes taken although the status says none.
C11_WitnessAtqa ==
    /\ op = "wupa"
    /\ pc = "done"
    /\ result.kind = "atqa"
    /\ lastOp = BusOp("read_fifo", "FIFO", <<136, 4>>)

---------------------------------------------------------------------------
(* Properties of the codec, over SpecCodec *)

Coded == bus.stage = "coded"

\* The bit positions in which two bytes differ.
DiffBits(x, y) == {b \in 0 .. 7 : Bit(x, b) # Bit(y, b)}

\* C18: the read and the write address of a register differ in bit 6 and in
\* no other bit, two distinct registers have distinct read addresses and
\* distinct write addresses, and the pattern of a command has bits 7 and 6
\* set and the command's code in its low six bits.
C18_Codec ==
    /\ (Coded /\ bus.kind = "registers") =>
          /\ DiffBits(bus.read, bus.write) = {6}
          /\ bus.write % 64 = RegisterCode[bus.reg]
          /\ bus.reg # bus.other =>
                /\ bus.read # bus.other_read
                /\ bus.write # bus.other_write
                /\ bus.read # bus.other_write
    /\ (Coded /\ bus.kind = "command") =>
          /\ Bit(bus.pattern, 7) = 1
          /\ Bit(bus.pattern, 6) = 1
          /\ bus.pattern % 64 = CommandCode[bus.cmd]

C18_Witness ==
    /\ Coded
    /\ bus.kind = "registers"
    /\ bus.reg = "ReceiverStateDisplay"
    /\ bus.other = "FIFOStatus"
    /\ bus.read = 87
    /\ bus.write = 23
    /\ bus.other_read = 73

\* The command side of C18: EnterTransparentMode is sent as 0xDC.
C18_WitnessCommand ==
    /\ Coded
    /\ bus.kind = "command"
    /\ bus.cmd = "EnterTransparentMode"
    /\ bus.pattern = 220

---------------------------------------------------------------------------
(* Properties of the transport, over SpecTransport *)

TransportOut == bus.stage = "out"

PinEvents == {"set_high", "set_high failed", "set_low", "set_low failed"}

\* C12: a call through with_cs_high of as3910_2_7.rs calls set_high first,
\* then runs the closure, then calls set_low whether the closure succeeded or
\* failed, and returns what the closure returned; when the pin obeys, the
\* line is low again at the return.
C12_ScopeAlwaysReleased ==
    (TransportOut /\ bus.call.impl = "as3910_2_7") =>
        /\ Len(bus.events) >= 2
        /\ bus.events[1] \in {"set_high", "set_high failed"}
        /\ bus.events[Len(bus.events)] \in {"set_low", "set_low failed"}
        /\ \A k \in 2 .. Len(bus.events) - 1 : bus.events[k] \notin PinEvents
        /\ bus.ret = (IF \E k \in DOMAIN bus.events :
                            bus.events[k] = "exchange failed"
                      THEN "SPI" ELSE "ok")
        /\ bus.events[Len(bus.events)] = "set_low" => bus.cs = "low"
        /\ bus.depth = 0

\* The failure path of C12: the transfer fails and set_low still runs.
C12_Witness ==
    /\ TransportOut
    /\ bus.call.impl = "as3910_2_7"
    /\ bus.call.kind = "read"
    /\ bus.events = <<"set_high", "exchange failed", "set_low">>
    /\ bus.ret = "SPI"
    /\ bus.cs = "low"

\* C13: a bus call of the driver enters one scope, no more and no less; no
\* bus exchange happens outside a scope, and no scope is entered while
\* another is open.
C13_OneScopePerCall ==
    /\ bus.stage \in {"run", "out"} =>
          /\ bus.depth \in {0, 1}
          /\ bus.outside = 0
          /\ bus.scopes <= 1
          /\ bus.wire # <<>> => bus.scopes = 1
    /\ TransportOut => bus.scopes = 1 /\ bus.depth = 0

C13_Witness ==
    /\ TransportOut
    /\ bus.call.kind = "read_fifo"
    /\ bus.call.n = 2
    /\ bus.wire = <<191, 0, 0>>
    /\ bus.scopes = 1
    /\ bus.ret = "ok"

\* The FIFO push of C13: header and payload in one scope.
C13_WitnessPush ==
    /\ TransportOut
    /\ bus.call.kind = "write_fifo"
    /\ bus.wire = <<128, 147, 32>>
    /\ bus.events = <<"assert", "exchange", "exchange", "deassert">>

---------------------------------------------------------------------------
(* Properties of wait_for_interrupt *)

Polling == pc = "w_poll"

\* The line was read low every time and the loop has not returned yet.
WaitCounts(max_reads) ==
    /\ waited.polls <= max_reads
    /\ Polling => waited.delays = waited.polls /\ poll_i = waited.delays
    /\ (~Polling /\ waited.polls > 0) => waited.delays = waited.polls - 1

\* C14 as amended: wait_for_interrupt(timeout_ms) reads the line at most
\* timeout_ms + 1 times, with one 1 ms delay after every read but the last
\* (at most timeout_ms delays), and a loop that was entered returns.
C14_BoundedWait ==
    /\ [](WaitCounts(WaitTimeout + 1) /\ waited.delays <= WaitTimeout)
    /\ (Polling ~> ~Polling)

\* The line stays low: six reads, five delays, then the timeout.
C14_Witness ==
    /\ op = "reqa"
    /\ pc = "done"
    /\ raised = "InterruptTimeout"
    /\ waited = [polls |-> WaitTimeout + 1, delays |-> WaitTimeout,
                 line |-> "low", irq_reads |-> 0]

\* C14 as stated: the line is read at most timeout_ms times, with one delay
\* between consecutive reads.
C14_AtMostTimeoutReads == WaitCounts(WaitTimeout)

\* The bus operation before the present one was the start of a transmission.
TransmitLast ==
    /\ lastOp.op = "execute_command"
    /\ lastOp.target \in {"TransmitREQA", "TransmitWUPA", "TransmitWithCRC",
                          "TransmitWithoutCRC"}

\* C15: wait_for_interrupt reads the interrupt register once, right after
\* the first poll that finds the line high, and returns the value read
\* (the communicator turns a value with the collision flag into Collision);
\* when every poll finds the line low it returns InterruptTimeout and has
\* read no register.
C15_FlagsReadOnce ==
    /\ waited.irq_reads <= 1
    /\ waited.irq_reads = 1 => waited.line = "high"
    /\ pc = "w_irq" <=> (waited.line = "high" /\ waited.irq_reads = 0)
    /\ pc = "w_irq" => waited.delays = waited.polls - 1
    /\ (lastOp.op = "read_register" /\ lastOp.target = "Interrupt"
        /\ lastOp.data # <<>>) =>
          /\ waited = WaitReturned
          /\ raised = "Collision" =>
                BitAnd(lastOp.data[1], BIT_COLLISION) # 0
          /\ intr # -1 => intr = lastOp.data[1]
          /\ pc \in {"q_status", "f_status"} => intr = lastOp.data[1]
    /\ raised = "InterruptTimeout" =>
          /\ waited.line = "low"
          /\ waited.irq_reads = 0
          /\ waited.polls = WaitTimeout + 1
          /\ TransmitLast
    /\ (waited.line \in {"low", "fault"} /\ waited.polls > 0) =>
          /\ waited.irq_reads = 0
          /\ TransmitLast

\* The line is found high and the register, read once, holds the
\* end-of-receive flag.
C15_Witness ==
    /\ op = "communicate"
    /\ waited = WaitReturned
    /\ lastOp = BusOp("read_register", "Interrupt", <<16>>)
    /\ intr = 16

\* The timeout side of C15.
C15_WitnessTimeout ==
    /\ op = "communicate"
    /\ pc = "done"
    /\ raised = "InterruptTimeout"
    /\ result = Err("InterruptTimeout")
    /\ waited.irq_reads = 0
    /\ TransmitLast

---------------------------------------------------------------------------
(* Properties of the communicator and of the FIFO harvest *)

\* The interrupt flags that the wait of the present communication returned,
\* -1 when the last bus operation is not that read.
FlagsRead ==
    IF lastOp.op = "read_register" /\ lastOp.target = "Interrupt"
       /\ lastOp.data # <<>>
    THEN lastOp.data[1] ELSE -1

Harvesting == pc \in {"f_status", "f_read"}

\* The bytes that the last FIFO read took from the chip.
FifoTaken ==
    IF lastOp.op = "read_fifo" /\ lastOp.target = "FIFO" THEN lastOp.data
    ELSE <<>>

\* C16: when the flags returned by the wait of communicate_to_picc (called
\* directly, or by select or hlta) hold the collision flag, it returns
\* Collision at once, with no read of the FIFO
\* status or of the FIFO; when they do not, the FIFO is harvested and what
\* was harvested is the FifoData returned.  (The harvest that select makes
\* itself after a collision, line 285, is not the communicator's.)
C16_CollisionOrHarvest ==
    /\ (~WakeOp /\ FlagsRead >= 0 /\ BitAnd(FlagsRead, BIT_COLLISION) # 0) =>
          /\ raised = "Collision"
          /\ ~Harvesting
          /\ op = "communicate" => pc = "done" /\ result = Err("Collision")
    /\ (Harvesting /\ ctx # "coll") =>
          intr >= 0 /\ BitAnd(intr, BIT_COLLISION) = 0
    /\ (op = "communicate" /\ result = Err("Collision")) =>
          FlagsRead >= 0 /\ BitAnd(FlagsRead, BIT_COLLISION) # 0
    /\ (FlagsRead >= 0 /\ BitAnd(FlagsRead, BIT_COLLISION) = 0
        /\ op = "communicate") => Harvesting \/ result.kind = "fifo"
    /\ (op = "communicate" /\ result.kind = "fifo") =>
          /\ lastOp.op \in {"read_register", "read_fifo"}
          /\ lastOp.data # <<>>
          /\ lastOp.op = "read_fifo" =>
                /\ result.fifo.valid_bytes = Len(FifoTaken)
                /\ \A k \in 1 .. Len(FifoTaken) :
                      result.fifo.buffer[k - 1] = FifoTaken[k]
          /\ lastOp.op = "read_register" => result.fifo.valid_bytes = 0

C16_Witness ==
    /\ op = "communicate"
    /\ pc = "done"
    /\ result = Err("Collision")
    /\ lastOp = BusOp("read_register", "Interrupt", <<17>>)

\* The other side of C16: five bytes harvested and returned.
C16_WitnessHarvest ==
    /\ op = "communicate"
    /\ pc = "done"
    /\ result.kind = "fifo"
    /\ result.fifo.valid_bytes = 5
    /\ Len(FifoTaken) = 5

\* The byte count of the last FIFO status read.
Reported == IF StatusRead >= 0 THEN Shr8(StatusRead, 2) ELSE -1

\* C17: a FifoData never reports more valid bytes than its capacity RX; a
\* FIFO status that reports more than RX ends the harvest with NoRoom before
\* any FIFO byte is read; otherwise the FIFO read that follows takes as many
\* bytes as the status reported.
C17_HarvestWithinRoom ==
    /\ [](/\ result.kind = "fifo" =>
                result.fifo.valid_bytes <= ArrLen(result.fifo.buffer)
          /\ pc = "f_read" =>
                /\ Reported = valid_bytes
                /\ valid_bytes \in 1 .. call.RX
          /\ raised = "NoRoom" =>
                /\ Reported > 0
                /\ lastOp.op = "read_register"
                /\ pc \in {"done", "idle"}
                /\ commOut = "NoRoom" \/ result = Err("NoRoom")
          /\ pc = "f_status" => Reported = -1)
    /\ [][(pc = "f_status" /\ Reported' > call.RX) =>
              raised' = "NoRoom" /\ pc' # "f_read"]_vars
    /\ [][(pc = "f_read" /\ raised' = "") =>
              /\ lastOp'.op = "read_fifo"
              /\ Len(lastOp'.data) = Reported]_vars

\* Six bytes reported to a buffer of five.
C17_Witness ==
    /\ op = "communicate"
    /\ pc = "done"
    /\ result = Err("NoRoom")
    /\ lastOp = BusOp("read_register", "FIFOStatus", <<24>>)

\* A harvest of exactly RX bytes.
C17_WitnessFull ==
    /\ op = "communicate"
    /\ pc = "done"
    /\ result.kind = "fifo"
    /\ result.fifo.valid_bytes = 5
    /\ ArrLen(result.fifo.buffer) = 5
    /\ lastOp.op = "read_fifo"

---------------------------------------------------------------------------
(* Error propagation *)

\* The error raised by the last step, other than Collision.
Fault == IF raised \in {"", "Collision"} THEN "" ELSE raised

\* A Collision is acted upon (the collision register is read next) only when
\* it answers an anti-collision frame of select; one that answers a Select
\* frame, or a frame of hlta or of a direct call, is returned.
CollisionHandling ==
    /\ [](raised = "Collision" =>
             \/ op = "select" /\ pc = "s_collreg"
             \/ pc = "done" /\ result = Err("Collision"))
    /\ [][(raised' = "Collision" /\ pc' = "s_collreg") => ctx = "ac"]_vars
    /\ [][(raised' = "Collision" /\ ctx # "ac") =>
              pc' = "done" /\ result' = Err("Collision")]_vars

\* C19 as amended: a fault of the bus, of chip-select or of the interrupt
\* pin, a timeout or NoRoom ends the operation in the step that raised it
\* and is its result, except that hlta turns the timeout of its wait into
\* success; Collision is handled as in CollisionHandling.
C19_FaultEndsOperation ==
    /\ [](Fault # "" =>
             /\ pc = "done"
             /\ IF op = "hlta" /\ Fault = "InterruptTimeout"
                THEN result = OkUnit
                ELSE result = Err(Fault))
    /\ CollisionHandling

\* A bus fault in the middle of select: the fifth bus operation of the
\* anti-collision frame fails and select returns the fault.
C19_Witness ==
    /\ op = "select"
    /\ pc = "done"
    /\ raised = "SpiManager(CS)"
    /\ result = Err("SpiManager(CS)")
    /\ lastOp.op = "write_fifo"

\* C19 as stated: every such error, the timeout of hlta included, is the
\* result of the operation.
C19_EveryFaultReturned ==
    /\ [](Fault # "" => pc = "done" /\ result = Err(Fault))
    /\ CollisionHandling

---------------------------------------------------------------------------
(* The frames of select *)

\* The start of the transmission is the last bus operation.
Transmitting(command) == lastOp = BusOp("execute_command", command, <<>>)

\* C20: an anti-collision frame sent with k known bits is the cascade command
\* of the level, the NVB ((2 + k/8) << 4) | (k % 8) and the bytes of tx that
\* hold the known bits, 2 + ceil(k/8) bytes in all, sent with anti-collision
\* on, without CRC and with k % 8 bits of the last byte; a Select frame is
\* the cascade command, 0x70, the four UID bytes of the level and their XOR,
\* sent with anti-collision off and with CRC.
C20_Frames ==
    /\ ctx = "ac" =>
          LET k == known_bits
              frame == call.tx_buffer
          IN
          /\ ArrLen(frame) = 2 + ((k + 7) \div 8)
          /\ frame[0] = SelCl(cascade_level)
          /\ frame[1] = BitOr(Shl8(2 + (k \div 8), 4), k % 8)
          /\ \A j \in 2 .. ArrLen(frame) - 1 : frame[j] = tx[j]
          /\ call.with_anti_collision
          /\ ~call.with_crc
          /\ call.tx_last_bits = k % 8
          /\ lastOp.op = "write_fifo" => lastOp.data = ArrSeq(frame)
          /\ (lastOp.op = "write_register"
              /\ lastOp.target = "NumberOfTransmittedBytes0") =>
                /\ Bit(lastOp.data[1], 0) = 1
                /\ (lastOp.data[1] \div 8) % 8 = k % 8
          /\ lastOp.op = "execute_command" =>
                lastOp.target \in {"Clear", "TransmitWithoutCRC"}
    /\ ctx = "sel" =>
          LET frame == call.tx_buffer IN
          /\ ArrLen(frame) = 7
          /\ frame[0] = SelCl(cascade_level)
          /\ frame[1] = 112
          /\ \A j \in 2 .. 5 : frame[j] = tx[j]
          /\ frame[6] = BitXor(BitXor(BitXor(frame[2], frame[3]), frame[4]),
                               frame[5])
          /\ ~call.with_anti_collision
          /\ call.with_crc
          /\ call.tx_last_bits = 0
          /\ lastOp.op = "write_fifo" =>
                lastOp.data = ArrSeq(frame) /\ Len(lastOp.data) = 7
          /\ (lastOp.op = "write_register"
              /\ lastOp.target = "NumberOfTransmittedBytes0") =>
                Bit(lastOp.data[1], 0) = 0
          /\ lastOp.op = "execute_command" =>
                lastOp.target \in {"Clear", "TransmitWithCRC"}

\* An anti-collision frame with known bits that do not fill a byte has been
\* pushed and its transmission started.
C20_Witness ==
    /\ ctx = "ac"
    /\ known_bits % 8 # 0
    /\ Transmitting("TransmitWithoutCRC")
    /\ call.tx_buffer[1] = BitOr(Shl8(2 + (known_bits \div 8), 4), known_bits % 8)
    /\ ArrLen(call.tx_buffer) = 3 + (known_bits \div 8)

\* The Select frame of the second cascade level is being sent.
C20_WitnessSelect ==
    /\ ctx = "sel"
    /\ cascade_level = 1
    /\ Transmitting("TransmitWithCRC")
    /\ call.tx_buffer[0] = 149
    /\ call.tx_buffer[1] = 112

---------------------------------------------------------------------------
(* The collision branch of select *)

\* The step in which the harvest after an accepted collision succeeds, so
\* that lines 288-297 run.
CollisionHarvested ==
    /\ ctx = "coll"
    /\ pc \in {"f_status", "f_read"}
    /\ raised' = ""
    /\ pc' # "f_read"

\* Bit b (counted from 1) of the UID area of the working frame.
UidBit(t, b) == Bit(t[2 + ((b - 1) \div 8)], (b - 1) % 8)

\* C21: after an accepted collision at coll_pos, select goes on with
\* known_bits = coll_pos and with bit (coll_pos - 1) % 8 of the byte
\* tx[2 + (coll_pos - 1) / 8] set, and the bits that were known before the
\* collision are the same in the frame of the next round.
C21_ForcedBit ==
    [][CollisionHarvested =>
          /\ pc' = "anticollision"
          /\ known_bits' = coll_pos
          /\ coll_pos >= 1
          /\ 2 + ((coll_pos - 1) \div 8) < TxLen
          /\ UidBit(tx', coll_pos) = 1
          /\ \A b \in 1 .. known_bits : UidBit(tx', b) = UidBit(tx, b)]_vars

\* The same for the collision positions 1 .. 40 of one cascade level.
C21_ForcedBitWithinLevel ==
    [][(CollisionHarvested /\ coll_pos \in 1 .. 40 /\ known_bits < 40) =>
          /\ pc' = "anticollision"
          /\ known_bits' = coll_pos
          /\ UidBit(tx', coll_pos) = 1
          /\ \A b \in 1 .. known_bits : UidBit(tx', b) = UidBit(tx, b)]_vars

---------------------------------------------------------------------------
(* The order of the bus operations of communicate_to_picc *)

\* The steps that make no bus operation: a call, a return, the head of a
\* loop and a poll of the interrupt line.  Every other step makes the one
\* that lastOp' records.
BusOpStep == pc \notin {"idle", "done", "cascade", "anticollision", "w_poll"}

\* This step issues the bus operation o_op on o_target.
Issues(o_op, o_target) ==
    /\ BusOpStep
    /\ lastOp'.op = o_op
    /\ lastOp'.target = o_target

\* The bus operation before this step was o_op on o_target and succeeded.
After(o_op, o_target) ==
    /\ lastOp.op = o_op
    /\ lastOp.target = o_target
    /\ raised = ""

TransmitCommands == {"TransmitWithCRC", "TransmitWithoutCRC"}

InCommunicator == ctx \in {"ac", "sel", "hlta", "comm"}

\* C22: in a run of communicate_to_picc the first byte-count register is
\* written right after the Clear command, the second right after the first,
\* the frame is pushed after both (and after the two configuration writes),
\* the transmit command follows the successful push and nothing else, it is
\* TransmitWithCRC exactly when with_crc is set, the wait starts right after
\* it, and the FIFO status and the FIFO are read only after the wait has
\* returned flags without a collision.
C22_OperationOrder ==
    /\ [][(InCommunicator /\ Issues("write_register", "NumberOfTransmittedBytes0"))
             => After("execute_command", "Clear")]_vars
    /\ [][(InCommunicator /\ Issues("write_register", "NumberOfTransmittedBytes1"))
             => After("write_register", "NumberOfTransmittedBytes0")]_vars
    /\ [][(InCommunicator /\ Issues("write_register", "ReceiverConfiguration"))
             => After("write_register", "NumberOfTransmittedBytes1")]_vars
    /\ [][(InCommunicator /\ Issues("write_register", "ConfigurationRegister3"))
             => After("write_register", "ReceiverConfiguration")]_vars
    /\ [][(InCommunicator /\ Issues("write_fifo", "FIFO"))
             => /\ After("write_register", "ConfigurationRegister3")
                /\ lastOp'.data = ArrSeq(call.tx_buffer)]_vars
    /\ [][(\E c \in TransmitCommands : Issues("execute_command", c))
             => /\ InCommunicator
                /\ After("write_fifo", "FIFO")
                /\ lastOp'.target = (IF call.with_crc THEN "TransmitWithCRC"
                                     ELSE "TransmitWithoutCRC")]_vars
    /\ [][(InCommunicator /\ pc # "w_poll" /\ pc' = "w_poll")
             => /\ lastOp'.target \in TransmitCommands
                /\ lastOp # lastOp'
                /\ raised' = ""]_vars
    /\ [][(InCommunicator /\ pc = "w_poll") => lastOp.target \in TransmitCommands]_vars
    /\ [][(InCommunicator /\ Issues("read_register", "FIFOStatus"))
             => /\ After("read_register", "Interrupt")
                /\ waited = WaitReturned
                /\ ~HasCollision(intr)]_vars
    /\ [][(InCommunicator /\ Issues("read_fifo", "FIFO"))
             => After("read_register", "FIFOStatus")]_vars

\* A whole run: the answer to a directly sent frame has been harvested.
C22_Witness ==
    /\ op = "communicate"
    /\ pc = "done"
    /\ result.kind = "fifo"
    /\ lastOp.op = "read_fifo"
    /\ Len(lastOp.data) = 5

\* A run without CRC: the anti-collision frame has been pushed and its
\* transmission started.
C22_WitnessWithoutCrc ==
    /\ ctx = "ac"
    /\ pc = "w_poll"
    /\ ~call.with_crc
    /\ lastOp = BusOp("execute_command", "TransmitWithoutCRC", <<>>)
    /\ waited.polls = 2

---------------------------------------------------------------------------
(* Properties of the decoding of the collision register, over SpecDecode *)

Decoded == bus.stage = "decoded"

\* C24: for every value of the collision register no u8 operation of the
\* decoding overflows or underflows, and coll_pos is
\* (upper nibble - 2) * 8 + bits 3..1 + 1, which is at least 1.
C24_DecodingInRange ==
    Decoded =>
        LET nib == bus.coll_reg \div 16
            bits == (bus.coll_reg \div 2) % 8
        IN
        /\ ~bus.out.ovf
        /\ bus.out.pos = (nib - 2) * 8 + bits + 1
        /\ bus.out.pos \in 1 .. 255

\* The same for the values whose upper nibble is at least 2.
C24_DecodingFromNibbleTwo ==
    (Decoded /\ bus.coll_reg >= 32) =>
        LET nib == bus.coll_reg \div 16
            bits == (bus.coll_reg \div 2) % 8
        IN
        /\ ~bus.out.ovf
        /\ bus.out.pos = (nib - 2) * 8 + bits + 1
        /\ bus.out.pos \in 1 .. 112

---------------------------------------------------------------------------
(* The indices on the working frame *)

\* This step ends select with the panic `why`.
PanicsWith(why) == result'.kind = "panic" /\ result'.err = why

\* The FifoData that the harvest of this step hands to copy_bits_to.
Harvested ==
    LET d == IF lastOp'.op = "read_fifo" THEN lastOp'.data ELSE <<>> IN
    [buffer |-> [k \in 0 .. 4 |-> IF k < Len(d) THEN d[k + 1] ELSE 0],
     valid_bytes |-> Len(d), valid_bits |-> 0]

\* The forced-bit index of lines 292-296 is outside the frame.
ForcedIndexPanic ==
    /\ CollisionHarvested
    /\ PanicsWith("forced bit")
    /\ ForceBit(tx, coll_pos).panic

\* An index of copy_bits_to (lines 109-113) is outside tx[2..=6].
CopyIndexPanic ==
    /\ ctx \in {"ac", "coll"}
    /\ pc \in {"f_status", "f_read"}
    /\ PanicsWith("copy_bits_to")
    /\ CopyBitsTo(Harvested, Slice(tx, 2, 7), known_bits).panic

\* The end of the slice tx[0..end] of line 263 is outside the frame.
SliceIndexPanic == pc = "anticollision" /\ PanicsWith("slice index out of range")

\* C23: no step of select uses an index outside the working frame: not the
\* forced-bit index, not the indices of copy_bits_to on tx[2..=6], not the
\* end of the slice transmitted in the next round.
C23_IndicesInFrame ==
    [][~(ForcedIndexPanic \/ CopyIndexPanic \/ SliceIndexPanic)]_vars

\* Each of the three indices apart.
C23_ForcedBitInFrame == [][~ForcedIndexPanic]_vars

C23_CopyInFrame == [][~CopyIndexPanic]_vars

C23_SliceInFrame == [][~SliceIndexPanic]_vars
====
